---- MODULE Spec2Model ----
(***************************************************************************)
(* Garmin microservice: the HTTP routes of app/main.py, the session        *)
(* life cycle of app/garmin_client.py (GarminClient.__init__, _load,       *)
(* close, get_gc) and the aggregation helpers, as a state machine.         *)
(*                                                                         *)
(* Spec      one request at a time, from the API-key gate to the response. *)
(* SpecBoot  concurrent GarminClient.__init__ runs and token-file readers. *)
(***************************************************************************)
EXTENDS Integers, Sequences, FiniteSets, TLC

VARIABLES
    apiKey,     \* main.py:8       API_KEY
    email,      \* garmin_client.py:14  GARMIN_EMAIL
    password,   \* garmin_client.py:15  GARMIN_PASSWORD
    blob,       \* garmin_client.py:21  blob, the GARMINTOKENS_JSON read by __init__
    file,       \* the file at tokens_path: Absent or its content
    pc,         \* position of the request in flight
    route,      \* the route requested
    xkey,       \* the X-API-Key header of the request
    args,       \* the request's parameters
    client,     \* gc._client is a Garmin object
    logins,     \* outcomes of the login calls of this request, in order
    calls,      \* upstream operations called by this request, in order
    inp,        \* upstream documents the request's handler received
    loc,        \* local variables of the handler
    resp,       \* the response (or the exception leaving the handler)
    bpc,        \* SpecBoot: position of each __init__ run
    seen        \* SpecBoot: what the readers of the token file observed

cfgvars == <<apiKey, email, password, blob>>
reqvars == <<pc, route, xkey, args, client, logins, calls, inp, loc, resp>>
bootvars == <<bpc, seen>>
vars == <<apiKey, email, password, blob, file, pc, route, xkey, args, client,
          logins, calls, inp, loc, resp, bpc, seen>>

----------------------------------------------------------------------------
(* Python values, tagged; a raised exception is a value that the strict    *)
(* operators below pass on.                                                *)

None == [t |-> "None"]
Num(n, d) == [t |-> "num", n |-> n, d |-> d]
PInt(n) == Num(n, 1)
Str(s) == [t |-> "str", v |-> s]
List(s) == [t |-> "list", seq |-> s]
Dict(f) == [t |-> "dict", kv |-> f]
Exc(e) == [t |-> "exc", v |-> e]
EmptyDict == Dict([k \in {} |-> None])
EmptyList == List(<<>>)
Absent == [t |-> "absent"]
Bool(b) == [t |-> "bool", b |-> b]

IsExc(x) == x.t = "exc"
IsDict(x) == x.t = "dict"
IsList(x) == x.t = "list"
IsNum(x) == x.t = "num"
IsStr(x) == x.t = "str"

\* bool(x)
Truthy(x) ==
    CASE x.t = "None" -> FALSE
      [] x.t = "num"  -> x.n # 0
      [] x.t = "str"  -> x.v # ""
      [] x.t = "list" -> Len(x.seq) > 0
      [] x.t = "dict" -> DOMAIN x.kv # {}
      [] OTHER        -> TRUE

\* x.get(k, dflt): only a mapping has .get
GetD(x, k, dflt) ==
    IF IsExc(x) THEN x
    ELSE IF ~IsDict(x) THEN Exc("AttributeError")
    ELSE IF k \in DOMAIN x.kv THEN x.kv[k] ELSE dflt

\* x.get(k)
Get(x, k) == GetD(x, k, None)

\* a or b
Or(a, b) == IF IsExc(a) THEN a ELSE IF Truthy(a) THEN a ELSE b

\* try: x  except Exception: dflt
Try(x, dflt) == IF IsExc(x) THEN dflt ELSE x

\* (x.get(k1, {}) or {}).get(k2)
Sub(x, k1, k2) == Get(Or(GetD(x, k1, EmptyDict), EmptyDict), k2)

\* GarminClient._safe
_safe(ret) == Try(ret, EmptyDict)

----------------------------------------------------------------------------
(* Configuration and requests                                              *)

Secret == Str("k1")
ApiKeys == {Str(""), Secret}
Headers == {None, Secret, Str("k2")}
Emails == {Str(""), Str("me@example.org")}
Passwords == {None, Str("pw")}
Blobs == {None, Str(""), Str("tokB")}
Files == {Absent, Str("tokA")}

Guarded == {"params", "activities", "steps", "daily"}
Routes == Guarded \cup {"health"}

NoArgs == [k \in {} |-> None]
Pending == [t |-> "pending"]
Http(code) == [t |-> "http", code |-> code]

\* main.py require_api_key: None when the request passes, else the HTTPException
WrongRequireApiKey(x_api_key, API_KEY) ==
    IF ~Truthy(API_KEY) THEN None
    ELSE IF x_api_key # None /\ x_api_key # API_KEY THEN Http(401)
    ELSE None

require_api_key(x_api_key, API_KEY) ==
    IF ~Truthy(API_KEY) THEN None
    ELSE IF x_api_key # API_KEY THEN Http(401)
    ELSE None

\* garmin_client.py:22  the bootstrap write's condition
WrongShouldWrite(b, f) == Truthy(b)

ShouldWrite(b, f) == Truthy(b) /\ f = Absent

\* garmin_client.py:32  both credentials configured
WrongHasCredentials(e, p) == Truthy(e) \/ Truthy(p)

HasCredentials(e, p) == Truthy(e) /\ Truthy(p)

ConfigError == Exc("RuntimeError")
LoginResults == {None, Exc("GarthHTTPError")}
LogoutResults == {None, Exc("ConnectionError")}

----------------------------------------------------------------------------
(* Dates: utils.parse_date, date.strftime("%Y-%m-%d"), date.isoformat      *)

Date(s) == [t |-> "date", v |-> s]
ValidDateStrs == {"2024-01-10", "2024-01-20"}
DateStrs == ValidDateStrs \cup {"20 Jan"}

\* utils.parse_date: datetime.strptime(s, "%Y-%m-%d").date()
parse_date(s) == IF s \in ValidDateStrs THEN Date(s) ELSE Exc("ValueError")

\* d.strftime("%Y-%m-%d") and d.isoformat()
isoformat(d) == Str(d.v)

ArgsFor(r) ==
    CASE r = "activities" -> [start : DateStrs, end : DateStrs]
      [] r = "daily"      -> [date_str : DateStrs]
      [] r = "steps"      -> [activity_id : {7, 8}]
      [] OTHER            -> {NoArgs}

----------------------------------------------------------------------------
(* One request: gate, handler entry, get_gc, handler body, close           *)

NoLoc == [k \in {} |-> None]

Init ==
    /\ apiKey \in ApiKeys
    /\ email \in Emails
    /\ password \in Passwords
    /\ blob = None
    /\ file \in Files
    /\ pc = "idle"
    /\ route = "none"
    /\ xkey = None
    /\ args = NoArgs
    /\ client = FALSE
    /\ logins = <<>>
    /\ calls = <<>>
    /\ inp = None
    /\ loc = NoLoc
    /\ resp = Pending
    /\ bpc = <<>>
    /\ seen = {}

\* a request arrives; /health has no dependency (main.py:18-20)
Request ==
    /\ pc = "idle"
    /\ \E r \in Routes, k \in Headers :
         \E a \in ArgsFor(r) :
            /\ route' = r
            /\ xkey' = k
            /\ args' = a
            /\ pc' = IF r = "health" THEN "health" ELSE "gate"
    /\ UNCHANGED <<cfgvars, file, client, logins, calls, inp, loc, resp, bootvars>>

\* main.py:18-20
Health ==
    /\ pc = "health"
    /\ resp' = Dict([ok |-> Bool(TRUE), time |-> Str("utcnow+Z")])
    /\ pc' = "done"
    /\ UNCHANGED <<cfgvars, file, route, xkey, args, client, logins, calls, inp, loc, bootvars>>

\* Depends(require_api_key) of the four guarded routes
Gate ==
    /\ pc = "gate"
    /\ LET r == require_api_key(xkey, apiKey) IN
         IF r # None
         THEN resp' = r /\ pc' = "done"
         ELSE resp' = resp /\ pc' = "enter"
    /\ UNCHANGED <<cfgvars, file, route, xkey, args, client, logins, calls, inp, loc, bootvars>>

\* the handler's statements before `with get_gc()`:
\* main.py:62-63 (activities), main.py:75 (daily)
Enter ==
    /\ pc = "enter"
    /\ LET l == CASE route = "activities" ->
                       LET d0 == parse_date(args.start)
                           d1 == parse_date(args.end)
                       IN IF IsExc(d0) THEN d0 ELSE IF IsExc(d1) THEN d1
                          ELSE [d0 |-> d0, d1 |-> d1]
                  [] route = "daily" ->
                       LET d == parse_date(args.date_str)
                       IN IF IsExc(d) THEN d ELSE [d |-> d]
                  [] OTHER -> NoLoc
       IN IF "t" \in DOMAIN l
          THEN resp' = l /\ pc' = "done" /\ loc' = loc
          ELSE resp' = resp /\ pc' = "init" /\ loc' = l
    /\ UNCHANGED <<cfgvars, file, route, xkey, args, client, logins, calls, inp, bootvars>>

\* get_gc line 267: GarminClient.__init__ (garmin_client.py:13-24)
GcInit ==
    /\ pc = "init"
    /\ client' = FALSE
    /\ \E b \in Blobs :
         /\ blob' = b
         /\ file' = IF ShouldWrite(b, file) THEN b ELSE file
    /\ pc' = "load"
    /\ UNCHANGED <<apiKey, email, password, route, xkey, args, logins, calls, inp, loc,
                   resp, bootvars>>

\* the first statement of each handler body
BodyStart(r) ==
    CASE r = "params"     -> "p_hr"
      [] r = "activities" -> "a_range"
      [] r = "steps"      -> "s_steps"
      [] r = "daily"      -> "d_sleep"

\* get_gc line 268: GarminClient._load (garmin_client.py:26-35), outside the try
GcLoad ==
    /\ pc = "load"
    /\ client' = TRUE
    /\ \E r1 \in LoginResults, r2 \in LoginResults :
         IF ~IsExc(r1)
         THEN /\ logins' = <<r1>>
              /\ calls' = Append(calls, "login")
              /\ resp' = resp
              /\ pc' = BodyStart(route)
         ELSE IF ~HasCredentials(email, password)
         THEN /\ logins' = <<r1>>
              /\ calls' = Append(calls, "login")
              /\ resp' = ConfigError
              /\ pc' = "done"
         ELSE /\ logins' = <<r1, r2>>
              /\ calls' = calls \o <<"login", "login">>
              /\ resp' = IF IsExc(r2) THEN r2 ELSE resp
              /\ pc' = IF IsExc(r2) THEN "done" ELSE BodyStart(route)
    /\ blob' = None
    /\ UNCHANGED <<apiKey, email, password, file, route, xkey, args, inp, loc, bootvars>>

\* GarminClient.close (garmin_client.py:37-41): what leaves close
close(ret) == Try(ret, None)

\* get_gc lines 271-272: the finally clause, entered from the handler body
GcClose ==
    /\ pc = "close"
    /\ \E r \in LogoutResults :
         /\ calls' = Append(calls, "logout")
         /\ resp' = IF IsExc(close(r)) THEN close(r) ELSE resp
    /\ pc' = "done"
    /\ UNCHANGED <<cfgvars, file, route, xkey, args, client, logins, inp, loc, bootvars>>

\* the response is sent; the request's objects are dropped
Respond ==
    /\ pc = "done"
    /\ pc' = "idle"
    /\ route' = "none"
    /\ xkey' = None
    /\ args' = NoArgs
    /\ client' = FALSE
    /\ logins' = <<>>
    /\ calls' = <<>>
    /\ inp' = None
    /\ loc' = NoLoc
    /\ resp' = Pending
    /\ UNCHANGED <<cfgvars, file, bootvars>>

\* one statement of a handler body: the upstream operations it called, the
\* value it computed (an exception leaves the with block through close)
Step(called, val, upd, nextpc) ==
    /\ calls' = calls \o called
    /\ IF IsExc(val)
       THEN resp' = val /\ pc' = "close" /\ loc' = loc
       ELSE resp' = resp /\ pc' = nextpc /\ loc' = upd @@ loc

----------------------------------------------------------------------------
(* Numbers: Num(n, d) is n/d with d > 0                                    *)

RECURSIVE gcd(_, _)
gcd(a, b) == IF b = 0 THEN a ELSE gcd(b, a % b)

\* n/d in lowest terms, d > 0
Ratio(n, d) ==
    LET an == IF n < 0 THEN 0 - n ELSE n
        ad == IF d < 0 THEN 0 - d ELSE d
        g == gcd(an, ad)
        sg == IF d < 0 THEN 0 - 1 ELSE 1
    IN Num(sg * (n \div g), ad \div g)

Le(a, b) == a.n * b.d <= b.n * a.d
Lt(a, b) == a.n * b.d < b.n * a.d

\* a / (b / 1000.0), for numbers a and b # 0
PerKm(a, b) ==
    LET k == Ratio(1000 * b.d, b.n) IN Ratio(a.n * k.n, a.d * k.d)

\* 1000.0 / a, for a number a > 0
Thousand_over(a) == Ratio(1000 * a.d, a.n)

----------------------------------------------------------------------------
(* GET /params: the helpers of GarminClient the handler calls              *)

\* garmin_client.py:135-140
get_user_hrmax(settings) == Try(Sub(settings, "userInfo", "maxHeartRate"), None)

\* garmin_client.py:144-146: the first try returns
ftp_first(perf) ==
    /\ ~IsExc(perf)
    /\ Truthy(perf)
    /\ IsDict(perf)
    /\ "cyclingFtp" \in DOMAIN perf.kv

\* garmin_client.py:142-153
get_ftp(perf, settings) ==
    IF ftp_first(perf) THEN Get(perf, "cyclingFtp")
    ELSE Try(Get(Or(Get(settings, "cycling"), EmptyDict), "ftp"), None)

\* garmin_client.py:155-160
get_lthr_run(th) == Try(Or(Get(th, "runLthr"), Get(th, "lthr")), None)

\* garmin_client.py:162-167
get_lthr_cycle(th) == Try(Or(Get(th, "cycleLthr"), Get(th, "cyclingLthr")), None)

\* garmin_client.py:169-177; a value that is neither list nor dict, and an
\* empty list, fall off the end of the function
get_latest_weight(w) ==
    IF IsExc(w) THEN None
    ELSE IF IsList(w) /\ Truthy(w) THEN Try(Get(w.seq[Len(w.seq)], "weight"), None)
    ELSE IF IsDict(w) THEN Get(w, "weight")
    ELSE None

\* the strings the upstream documents of the model hold, and
\* int(m) * 60 + int(s) for m, s = pace.split(":")
HasColon(s) == s \in {"4:30", "x:y"}
mmss(s) == IF s = "4:30" THEN PInt(4 * 60 + 30) ELSE Exc("ValueError")

\* garmin_client.py:181-188: the value the first try returns, or Absent when
\* control leaves it without a return
pace_first(lt) ==
    LET pace == Or(Get(lt, "runThresholdPace"), Get(lt, "pace")) IN
    IF IsExc(pace) \/ ~Truthy(pace) THEN Absent
    ELSE IF IsStr(pace) /\ HasColon(pace.v)
         THEN Try(mmss(pace.v), Absent)
    ELSE IF IsNum(pace) THEN pace
    ELSE Absent

\* a.get("activityType", {}).get("typeKey")
type_key(a) == Get(GetD(a, "activityType", EmptyDict), "typeKey")

\* garmin_client.py:196-202: one turn of the loop over runs
best_after(a, best) ==
    LET mdur == Or(Get(a, "movingDuration"), Get(a, "duration"))
        dist_m == Get(a, "distance")
    IN IF IsExc(mdur) THEN mdur
       ELSE IF ~Truthy(mdur) THEN best
       ELSE IF ~IsNum(mdur) THEN Exc("TypeError")
       ELSE IF ~(Le(PInt(2700), mdur) /\ Le(mdur, PInt(5400))) THEN best
       ELSE IF ~Truthy(dist_m) THEN best
       ELSE IF ~IsNum(dist_m) THEN Exc("TypeError")
       ELSE IF best = None \/ Lt(PerKm(mdur, dist_m), best)
            THEN PerKm(mdur, dist_m) ELSE best

RECURSIVE best_pace(_, _, _)
best_pace(recent, i, best) ==
    IF IsExc(best) \/ i > Len(recent) THEN best
    ELSE IF type_key(recent[i]) = Str("running")
         THEN best_pace(recent, i + 1, best_after(recent[i], best))
         ELSE best_pace(recent, i + 1, best)

\* garmin_client.py:191-205
pace_second(recent) ==
    IF IsExc(recent) THEN None
    ELSE IF ~IsList(recent) THEN None
    ELSE IF \E i \in 1..Len(recent.seq) : IsExc(type_key(recent.seq[i])) THEN None
    ELSE Try(best_pace(recent.seq, 1, None), None)

\* garmin_client.py:179-205
estimate_threshold_pace_seconds(lt, recent) ==
    LET first == pace_first(lt) IN
    IF first # Absent THEN first ELSE pace_second(recent)

----------------------------------------------------------------------------
(* What the upstream operations of GET /params may return or raise         *)

Down == Exc("ConnectionError")
Junk == List(<<PInt(1)>>)

HeartRatesRets ==
    {Down, None, Junk, EmptyDict, Dict([restingHeartRate |-> PInt(48)])}
ProfileRets ==
    {Down, None, EmptyDict, Dict([userInfo |-> None]),
     Dict([userInfo |-> Dict([maxHeartRate |-> PInt(190)])])}
Vo2Rets ==
    {Down, None, Junk, EmptyDict, Dict([vo2MaxValue |-> PInt(52)])}
LactateRets ==
    {Down, None, Junk, EmptyDict,
     Dict([runLthr |-> PInt(170), cycleLthr |-> PInt(160),
           runThresholdPace |-> Str("4:30")]),
     Dict([lthr |-> PInt(170), cyclingLthr |-> PInt(160), pace |-> PInt(270)]),
     Dict([runThresholdPace |-> Str("fast")]),
     Dict([pace |-> Str("x:y")])}
PerfRets ==
    {Down, None, Junk, Dict([cyclingFtp |-> PInt(250)]), EmptyDict}
SettingsRets ==
    {Down, None, Dict([cycling |-> Dict([ftp |-> PInt(250)])]),
     Dict([cycling |-> None]), Dict([cycling |-> PInt(3)])}
BodyCompRets ==
    {Down, None, EmptyList, Junk, EmptyDict, Dict([weight |-> PInt(70500)]),
     List(<<Dict([weight |-> PInt(70000)]), Dict([weight |-> PInt(70500)])>>)}
Run(mdur, dist) ==
    Dict([activityType |-> Dict([typeKey |-> Str("running")]),
          movingDuration |-> mdur, distance |-> dist])
RecentRets ==
    {Down, None, EmptyList, Junk,
     List(<<Run(PInt(3000), PInt(10000))>>),
     List(<<Run(PInt(3300), PInt(10000)), Run(PInt(3000), PInt(10000)),
            Run(PInt(600), PInt(3000))>>),
     List(<<Dict([activityType |-> None])>>),
     List(<<Dict([activityType |-> Dict([typeKey |-> Str("cycling")]),
                  movingDuration |-> PInt(3000), distance |-> PInt(30000)])>>)}

Today == {Date("2024-01-20")}

----------------------------------------------------------------------------
(* GET /params (main.py:22-58), one statement at a time                    *)

\* main.py:25-29
ParamsHr ==
    /\ pc = "p_hr"
    /\ \E today \in Today, ret \in HeartRatesRets :
         LET hr == Or(_safe(ret), EmptyDict)
             rhr == Get(hr, "restingHeartRate")
         IN Step(<<"get_heart_rates">>,
                 rhr, [today |-> today, rhr |-> rhr], "p_hrmax")
    /\ UNCHANGED <<cfgvars, file, route, xkey, args, client, logins, inp, bootvars>>

\* main.py:30
ParamsHrmax ==
    /\ pc = "p_hrmax"
    /\ \E ret \in ProfileRets :
         LET hrmax == get_user_hrmax(ret)
         IN Step(<<"get_full_user_profile">>, hrmax, [hrmax |-> hrmax], "p_vo2")
    /\ UNCHANGED <<cfgvars, file, route, xkey, args, client, logins, inp, bootvars>>

\* main.py:33-34
ParamsVo2 ==
    /\ pc = "p_vo2"
    /\ \E ret \in Vo2Rets :
         LET vo2 == Or(_safe(ret), EmptyDict)
             vo2_value == Get(vo2, "vo2MaxValue")
         IN Step(<<"get_vo2max">>, vo2_value, [vo2_value |-> vo2_value], "p_lthr_run")
    /\ UNCHANGED <<cfgvars, file, route, xkey, args, client, logins, inp, bootvars>>

\* main.py:37
ParamsLthrRun ==
    /\ pc = "p_lthr_run"
    /\ \E ret \in LactateRets :
         LET lthr_run == get_lthr_run(ret)
         IN Step(<<"get_lactate_threshold">>, lthr_run, [lthr_run |-> lthr_run],
                 "p_lthr_cycle")
    /\ UNCHANGED <<cfgvars, file, route, xkey, args, client, logins, inp, bootvars>>

\* main.py:38
ParamsLthrCycle ==
    /\ pc = "p_lthr_cycle"
    /\ \E ret \in LactateRets :
         LET lthr_cycle == get_lthr_cycle(ret)
         IN Step(<<"get_lactate_threshold">>, lthr_cycle, [lthr_cycle |-> lthr_cycle],
                 "p_ftp")
    /\ UNCHANGED <<cfgvars, file, route, xkey, args, client, logins, inp, bootvars>>

\* main.py:41
ParamsFtp ==
    /\ pc = "p_ftp"
    /\ \E perf \in PerfRets, settings \in SettingsRets :
         LET ftp == get_ftp(perf, settings)
         IN Step(IF ftp_first(perf) THEN <<"get_performance_condition">>
                 ELSE <<"get_performance_condition", "get_user_settings">>,
                 ftp, [ftp |-> ftp], "p_pace")
    /\ UNCHANGED <<cfgvars, file, route, xkey, args, client, logins, inp, bootvars>>

\* main.py:43
ParamsPace ==
    /\ pc = "p_pace"
    /\ \E lt \in LactateRets, recent \in RecentRets :
         LET rthreshold == estimate_threshold_pace_seconds(lt, recent)
         IN Step(IF pace_first(lt) # Absent THEN <<"get_lactate_threshold">>
                 ELSE <<"get_lactate_threshold", "get_activities">>,
                 rthreshold, [rthreshold |-> rthreshold], "p_weight")
    /\ UNCHANGED <<cfgvars, file, route, xkey, args, client, logins, inp, bootvars>>

\* main.py:46-57
params_out(l, weight) ==
    Dict([HRmax |-> l.hrmax,
          HRrest |-> l.rhr,
          LTHR_run |-> l.lthr_run,
          LTHR_cycle |-> l.lthr_cycle,
          FTP_bike_W |-> l.ftp,
          rThreshold_pace_s_per_km |-> l.rthreshold,
          VO2max |-> l.vo2_value,
          weight_kg |-> weight,
          updated_at |-> isoformat(l.today),
          source |-> Str("GarminConnect")])

\* main.py:45-58: the return leaves the with block through close
ParamsWeight ==
    /\ pc = "p_weight"
    /\ \E ret \in BodyCompRets :
         /\ calls' = Append(calls, "get_body_composition")
         /\ resp' = params_out(loc, get_latest_weight(ret))
    /\ pc' = "close"
    /\ UNCHANGED <<cfgvars, file, route, xkey, args, client, logins, inp, loc, bootvars>>

----------------------------------------------------------------------------
(* GET /activities: GarminClient.get_activities_range and _map_activity    *)

\* garmin_client.py:260-263; `<=` of a non-number and 0 raises TypeError
_pace_sec_per_km(speed_mps) ==
    IF ~Truthy(speed_mps) THEN None
    ELSE IF ~IsNum(speed_mps) THEN Exc("TypeError")
    ELSE IF speed_mps.n <= 0 THEN None
    ELSE Thousand_over(speed_mps)

\* garmin_client.py:210-216
avg_pace(a) ==
    LET avg_speed == Get(a, "averageSpeed")
        dist_m == Get(a, "distance")
        mdur == Get(a, "movingDuration")
    IN IF Truthy(avg_speed) THEN _pace_sec_per_km(avg_speed)
       ELSE IF Truthy(dist_m) /\ Truthy(mdur)
            THEN (IF IsNum(dist_m) /\ IsNum(mdur) THEN PerKm(mdur, dist_m)
                  ELSE Exc("TypeError"))
       ELSE None

\* str.upper on the type keys of the model's documents
upper(x) ==
    IF ~IsStr(x) THEN Exc("AttributeError")
    ELSE IF x.v = "running" THEN Str("RUNNING")
    ELSE IF x.v = "cycling" THEN Str("CYCLING")
    ELSE x

\* garmin_client.py:207-252
_map_activity(a) ==
    IF ~IsDict(a) THEN Exc("AttributeError")
    ELSE
    LET atype == Or(Get(Or(Get(a, "activityType"), EmptyDict), "typeKey"),
                    Get(GetD(a, "activityTypeDTO", EmptyDict), "typeKey"))
        name == Or(Get(a, "activityName"),
                   Get(GetD(a, "activityNameDTO", EmptyDict), "displayName"))
        pace == avg_pace(a)
        activity_type == IF IsExc(atype) THEN atype
                         ELSE IF Truthy(atype) THEN upper(atype) ELSE None
        device == Get(Or(Get(a, "deviceMetaDataDTO"), EmptyDict), "deviceId")
    IN IF IsExc(atype) THEN atype
       ELSE IF IsExc(name) THEN name
       ELSE IF IsExc(pace) THEN pace
       ELSE IF IsExc(activity_type) THEN activity_type
       ELSE IF IsExc(device) THEN device
       ELSE Dict([
            id |-> Get(a, "activityId"),
            start_time_local |-> Get(a, "startTimeLocal"),
            start_time_utc |-> Get(a, "startTimeGMT"),
            activity_type |-> activity_type,
            name |-> name,
            duration_s |-> Get(a, "duration"),
            moving_duration_s |-> Get(a, "movingDuration"),
            distance_m |-> Get(a, "distance"),
            elevation_gain_m |-> Get(a, "elevationGain"),
            elevation_loss_m |-> Get(a, "elevationLoss"),
            avg_hr |-> Get(a, "averageHR"),
            max_hr |-> Get(a, "maxHR"),
            avg_cadence |-> Or(Get(a, "averageRunCadence"),
                               Get(a, "averageCyclingCadence")),
            avg_power_w |-> Get(a, "averagePower"),
            max_power_w |-> Get(a, "maxPower"),
            np_w |-> Get(a, "normalizedPower"),
            avg_pace_s_per_km |-> pace,
            avg_speed_mps |-> Get(a, "averageSpeed"),
            calories |-> Get(a, "calories"),
            vo2max_value |-> Get(a, "vO2MaxValue"),
            aerobic_te |-> Get(a, "aerobicTrainingEffect"),
            anaerobic_te |-> Get(a, "anaerobicTrainingEffect"),
            training_load_epoc |-> Get(a, "trainingLoad"),
            avg_temperature_c |-> Get(a, "averageTemperature"),
            min_temperature_c |-> Get(a, "minTemperature"),
            max_temperature_c |-> Get(a, "maxTemperature"),
            stride_length_m |-> Get(a, "strideLength"),
            vertical_osc_mm |-> Get(a, "verticalOscillation"),
            avg_grade_percent |-> Or(Get(a, "avgGrade"), Get(a, "avgGradeAdjusted")),
            avg_vam |-> Get(a, "avgVerticalSpeed"),
            avg_run_cadence |-> Get(a, "averageRunCadence"),
            device |-> device,
            source |-> Str("GarminConnect"),
            note |-> Str("")])

\* [f(a) for a in items]: the first exception leaves the comprehension
RECURSIVE first_exc(_, _)
first_exc(s, i) ==
    IF i > Len(s) THEN None
    ELSE IF IsExc(s[i]) THEN s[i] ELSE first_exc(s, i + 1)

map_all(items) ==
    LET m == [i \in 1..Len(items) |-> _map_activity(items[i])]
    IN IF first_exc(m, 1) # None THEN first_exc(m, 1) ELSE List(m)

\* st[:10] and the order of the ISO dates of the model's documents
day_of(st) ==
    IF st = "2024-01-15 07:30:00" THEN "2024-01-15"
    ELSE IF st = "2024-02-01 08:00:00" THEN "2024-02-01"
    ELSE st
rank(day) ==
    CASE day = "2024-01-10" -> 1
      [] day = "2024-01-15" -> 2
      [] day = "2024-01-20" -> 3
      [] day = "2024-02-01" -> 4
      [] OTHER -> 0

\* garmin_client.py:52-54
within(r, d0, d1) ==
    LET st == Or(Get(r, "startTimeLocal"), Get(r, "startTimeGMT"))
    IN IF IsExc(st) THEN st
       ELSE IF ~Truthy(st) THEN Bool(FALSE)
       ELSE IF ~IsStr(st) THEN Exc("TypeError")
       ELSE Bool(/\ rank(day_of(st.v)) >= rank(isoformat(d0).v)
                 /\ rank(day_of(st.v)) <= rank(isoformat(d1).v))

\* garmin_client.py:51-55: the except AttributeError branch
range_fallback(recent, d0, d1) ==
    IF IsExc(recent) THEN recent
    ELSE IF ~IsList(recent) THEN Exc("TypeError")
    ELSE LET w == [i \in 1..Len(recent.seq) |-> within(recent.seq[i], d0, d1)]
             keep == SelectSeq(recent.seq, LAMBDA a : within(a, d0, d1) = Bool(TRUE))
         IN IF first_exc(w, 1) # None THEN first_exc(w, 1) ELSE map_all(keep)

\* garmin_client.py:56: items and "activityId" in items[0]
has_activity_id(items) ==
    IF ~Truthy(items) THEN Bool(FALSE)
    ELSE IF IsDict(items) THEN Exc("KeyError")
    ELSE IF ~IsList(items) THEN Exc("TypeError")
    ELSE IF IsDict(items.seq[1]) THEN Bool("activityId" \in DOMAIN items.seq[1].kv)
    ELSE IF IsList(items.seq[1])
         THEN Bool(Str("activityId") \in {items.seq[1].seq[i] : i \in 1..Len(items.seq[1].seq)})
    ELSE Exc("TypeError")

\* garmin_client.py:45-58
get_activities_range(d0, d1, ret, recent) ==
    LET items == IF ret = Exc("AttributeError") THEN range_fallback(recent, d0, d1)
                 ELSE ret
        has == has_activity_id(items)
    IN IF IsExc(items) THEN items
       ELSE IF IsExc(has) THEN has
       ELSE IF has.b THEN map_all(items.seq)
       ELSE items

\* upstream activity documents: a field whose value is Absent is not in the document
Doc(f) == Dict([k \in {x \in DOMAIN f : f[x] # Absent} |-> f[k]])
Speeds == {Absent, PInt(0), PInt(0 - 1), Num(5, 2)}
Durations == {Absent, PInt(1800)}
Distances == {Absent, PInt(0), PInt(5000)}
Act(speed, mdur, dist) ==
    Doc([activityId |-> PInt(11),
         startTimeLocal |-> Str("2024-01-15 07:30:00"),
         activityType |-> Dict([typeKey |-> Str("running")]),
         averageSpeed |-> speed, movingDuration |-> mdur, distance |-> dist])
Acts == {Act(s, m, d) : s \in Speeds, m \in Durations, d \in Distances}
Ride ==
    Doc([activityId |-> PInt(12),
         startTimeGMT |-> Str("2024-02-01 08:00:00"),
         activityTypeDTO |-> Dict([typeKey |-> Str("cycling")]),
         activityNameDTO |-> Dict([displayName |-> Str("Ride")]),
         averageCyclingCadence |-> PInt(85),
         averageSpeed |-> PInt(8)])

ListingRets ==
    {Exc("AttributeError"), Down, None, EmptyList, Junk,
     List(<<Ride, Act(Absent, PInt(1800), PInt(5000))>>)}
    \cup {List(<<a>>) : a \in Acts}
RecentActsRets ==
    {Down, EmptyList,
     List(<<Act(Num(5, 2), Absent, Absent), Ride>>), List(<<Ride>>)}

\* main.py:64-66
ActivitiesRange ==
    /\ pc = "a_range"
    /\ \E ret \in ListingRets, recent \in RecentActsRets :
         LET items == get_activities_range(loc.d0, loc.d1, ret, recent)
         IN /\ calls' = calls \o (IF ret = Exc("AttributeError")
                                  THEN <<"get_activities_by_date", "get_activities">>
                                  ELSE <<"get_activities_by_date">>)
            /\ inp' = ret
            /\ resp' = IF IsExc(items) THEN items ELSE Dict([items |-> items])
    /\ pc' = "close"
    /\ UNCHANGED <<cfgvars, file, route, xkey, args, client, logins, loc, bootvars>>

----------------------------------------------------------------------------
(* GET /activity/{activity_id}/steps: GarminClient.get_activity_steps      *)

\* garmin_client.py:64-77; i counts from 0 (enumerate)
step_record(activity_id, i, s) ==
    IF ~IsDict(s) THEN Exc("AttributeError")
    ELSE Dict([
        activity_id |-> PInt(activity_id),
        index |-> PInt(i),
        metric_type |-> GetD(s, "metricType", Str("")),
        start_offset_s |-> Get(s, "startTimeInSeconds"),
        end_offset_s |-> Get(s, "endTimeInSeconds"),
        distance_m |-> Get(s, "distanceInMeters"),
        avg_hr |-> Get(s, "averageHR"),
        max_hr |-> Get(s, "maxHR"),
        avg_power_w |-> Get(s, "averagePower"),
        cadence |-> Or(Get(s, "averageRunCadence"), Get(s, "averageCyclingCadence")),
        elevation_gain_m |-> Get(s, "elevationGain"),
        elevation_loss_m |-> Get(s, "elevationLoss")])

\* garmin_client.py:60-78; the upstream call at line 61 is not in a try
get_activity_steps(activity_id, details) ==
    LET metrics == Or(GetD(details, "activityDetailMetrics", EmptyList), EmptyList)
    IN IF IsExc(metrics) THEN metrics
       ELSE IF IsList(metrics)
            THEN LET out == [k \in 1..Len(metrics.seq) |->
                               step_record(activity_id, k - 1, metrics.seq[k])]
                 IN IF first_exc(out, 1) # None THEN first_exc(out, 1) ELSE List(out)
       ELSE IF IsDict(metrics) \/ IsStr(metrics) THEN Exc("AttributeError")
       ELSE Exc("TypeError")

Lap(kind, hr) ==
    Dict([metricType |-> Str(kind), startTimeInSeconds |-> PInt(0),
          averageHR |-> PInt(hr), averageRunCadence |-> PInt(170)])
Split == Dict([distanceInMeters |-> PInt(1000), averageCyclingCadence |-> PInt(85)])
DetailsRets ==
    {Down, None, Junk, EmptyDict,
     Dict([activityDetailMetrics |-> None]),
     Dict([activityDetailMetrics |-> EmptyList]),
     Dict([activityDetailMetrics |-> List(<<Lap("lap", 140)>>)]),
     Dict([activityDetailMetrics |-> List(<<Lap("lap", 140), Split>>)]),
     Dict([activityDetailMetrics |-> List(<<Split, Lap("lap", 150), Lap("lap", 140)>>)]),
     Dict([activityDetailMetrics |-> List(<<Split, PInt(3)>>)])}

\* main.py:70-71
ActivitySteps ==
    /\ pc = "s_steps"
    /\ \E ret \in DetailsRets :
         LET steps == get_activity_steps(args.activity_id, ret)
         IN /\ calls' = Append(calls, "get_activity_details")
            /\ inp' = ret
            /\ resp' = IF IsExc(steps) THEN steps
                       ELSE Dict([activity_id |-> PInt(args.activity_id),
                                  steps |-> steps])
    /\ pc' = "close"
    /\ UNCHANGED <<cfgvars, file, route, xkey, args, client, logins, loc, bootvars>>

----------------------------------------------------------------------------
(* GET /daily: GarminClient.get_daily_kpis                                 *)

\* garmin_client.py:88: the module garmin_client binds no name _mins (no def,
\* no import), so evaluating the call raises NameError
_mins(seconds) == Exc("NameError")

\* garmin_client.py:85
sleep_summary(sleep) ==
    IF IsList(sleep) THEN Or(sleep, List(<<EmptyDict>>)).seq[1]
    ELSE Or(sleep, EmptyDict)

\* garmin_client.py:84-94: the first update of out, its values evaluated in order
sleep_block(ret) ==
    LET ss == sleep_summary(_safe(ret))
        score == Get(ss, "overallSleepScore")
        duration == _mins(Get(ss, "sleepTimeSeconds"))
        awake == _mins(Get(ss, "awakeSleepSeconds"))
        light == _mins(Get(ss, "lightSleepSeconds"))
        deep == _mins(Get(ss, "deepSleepSeconds"))
        rem == _mins(Get(ss, "remSleepSeconds"))
    IN IF IsExc(score) THEN score
       ELSE IF IsExc(duration) THEN duration
       ELSE IF IsExc(awake) THEN awake
       ELSE IF IsExc(light) THEN light
       ELSE IF IsExc(deep) THEN deep
       ELSE IF IsExc(rem) THEN rem
       ELSE Dict([sleep_score |-> score,
                  sleep_duration_min |-> duration,
                  sleep_efficiency |-> Get(ss, "sleepEfficiency"),
                  sleep_awake_min |-> awake,
                  sleep_light_min |-> light,
                  sleep_deep_min |-> deep,
                  sleep_rem_min |-> rem])

SleepRets ==
    {Down, None, EmptyDict, EmptyList, Str("n/a"),
     Dict([overallSleepScore |-> PInt(80), sleepTimeSeconds |-> PInt(27000)]),
     List(<<Dict([overallSleepScore |-> PInt(80), sleepTimeSeconds |-> PInt(27000)])>>)}

\* main.py:77 entering get_daily_kpis, garmin_client.py:81-94.  The update at
\* lines 86-94 raises on every input, so lines 96-133 and main.py:78-79 are
\* never reached: "d_heart" is the position of line 96.
DailySleep ==
    /\ pc = "d_sleep"
    /\ \E ret \in SleepRets :
         /\ inp' = ret
         /\ Step(<<"get_sleep_data">>, sleep_block(ret),
                 [ds |-> isoformat(loc.d), out |-> sleep_block(ret)], "d_heart")
    /\ UNCHANGED <<cfgvars, file, route, xkey, args, client, logins, bootvars>>

Next ==
    \/ Request
    \/ Health
    \/ Gate
    \/ Enter
    \/ GcInit
    \/ GcLoad
    \/ ParamsHr
    \/ ParamsHrmax
    \/ ParamsVo2
    \/ ParamsLthrRun
    \/ ParamsLthrCycle
    \/ ParamsFtp
    \/ ParamsPace
    \/ ParamsWeight
    \/ ActivitiesRange
    \/ ActivitySteps
    \/ DailySleep
    \/ GcClose
    \/ Respond

Spec == Init /\ [][Next]_vars

----------------------------------------------------------------------------
(* Concurrent session bootstraps: GarminClient.__init__ lines 21-24 run by *)
(* several requests at once, and logins reading the token file             *)

NumProcs == 2
Procs == 1..NumProcs

BootInit ==
    /\ apiKey = Str("")
    /\ email = Str("")
    /\ password = None
    /\ blob = None
    /\ file \in Files
    /\ pc = "idle"
    /\ route = "none"
    /\ xkey = None
    /\ args = NoArgs
    /\ client = FALSE
    /\ logins = <<>>
    /\ calls = <<>>
    /\ inp = None
    /\ loc = NoLoc
    /\ resp = Pending
    /\ bpc = [p \in Procs |-> [at |-> "start", blob |-> None]]
    /\ seen = {}

\* garmin_client.py:21-22: read the blob, test it and os.path.exists
BootCheck(p) ==
    /\ bpc[p].at = "start"
    /\ \E b \in Blobs :
         bpc' = [bpc EXCEPT ![p] = [at |-> IF ShouldWrite(b, file) THEN "open" ELSE "done",
                                    blob |-> b]]
    /\ UNCHANGED <<cfgvars, file, reqvars, seen>>

\* garmin_client.py:23: open(tokens_path, "w") creates the file or truncates it
BootOpen(p) ==
    /\ bpc[p].at = "open"
    /\ file' = Str("")
    /\ bpc' = [bpc EXCEPT ![p].at = "write"]
    /\ UNCHANGED <<cfgvars, reqvars, seen>>

\* garmin_client.py:24: f.write(blob), flushed when the with block closes f
BootWrite(p) ==
    /\ bpc[p].at = "write"
    /\ file' = bpc[p].blob
    /\ bpc' = [bpc EXCEPT ![p].at = "done"]
    /\ UNCHANGED <<cfgvars, reqvars, seen>>

\* the next request of the same worker constructs another GarminClient
BootAgain(p) ==
    /\ bpc[p].at = "done"
    /\ bpc' = [bpc EXCEPT ![p] = [at |-> "start", blob |-> None]]
    /\ UNCHANGED <<cfgvars, file, reqvars, seen>>

\* garmin_client.py:28-30: a login reads what is at tokens_path
ReadTokens ==
    /\ seen' = seen \cup {file}
    /\ seen' # seen
    /\ UNCHANGED <<cfgvars, file, reqvars, bpc>>

BootNext ==
    \/ \E p \in Procs : BootCheck(p)
    \/ \E p \in Procs : BootOpen(p)
    \/ \E p \in Procs : BootWrite(p)
    \/ \E p \in Procs : BootAgain(p)
    \/ ReadTokens

SpecBoot == BootInit /\ [][BootNext]_vars

----------------------------------------------------------------------------
(* Properties                                                              *)

Called(op) == \E i \in 1..Len(calls) : calls[i] = op

\* the last login of the request succeeded: the handler body runs
Established == logins # <<>> /\ logins[Len(logins)] = None

ParamsKeys ==
    {"HRmax", "HRrest", "LTHR_run", "LTHR_cycle", "FTP_bike_W",
     "rThreshold_pace_s_per_km", "VO2max", "weight_kg", "updated_at", "source"}

\* C1: once the session is established, GET /params answers, whatever each
\* upstream query returned or raised, with a record of exactly the ten
\* declared keys.
C1_ParamsAlwaysAnswers ==
    (pc = "done" /\ route = "params" /\ Established)
        => (IsDict(resp) /\ DOMAIN resp.kv = ParamsKeys)

\* C2: a request that constructed the upstream client has attempted logout
\* by the time it finishes, on every exit path, and nothing raises out of
\* close.
C2_EverySessionClosed ==
    /\ (pc = "done" /\ client) => Called("logout")
    /\ \A r \in LogoutResults : ~IsExc(close(r))

\* C3: with API_KEY configured, a guarded request whose X-API-Key is
\* missing or different ends in 401 with no client constructed and no
\* upstream call; with API_KEY unconfigured every guarded request passes
\* the gate.
C3_ApiKeyGate ==
    (route \in Guarded /\ pc # "gate")
        => /\ (Truthy(apiKey) /\ xkey # apiKey)
                => (pc = "done" /\ resp = Http(401) /\ ~client
                    /\ calls = <<>> /\ logins = <<>>)
           /\ ~Truthy(apiKey) => resp # Http(401)

C3_Witness ==
    /\ pc = "done" /\ route = "daily" /\ Truthy(apiKey) /\ xkey = None
    /\ resp = Http(401)

Complete(content) == content \in {Str("tokA"), Str("tokB")}

\* C4: under concurrent bootstraps and token-file reads, the token file is
\* at every moment absent or one complete blob, and no reader sees
\* anything else.
C4_TokenFileNeverTorn ==
    /\ file = Absent \/ Complete(file)
    /\ \A x \in seen : x = Absent \/ Complete(x)

\* C5: no step of a request changes an existing token file; the file
\* changes only in GarminClient.__init__, only when it does not exist, and
\* then to the configured non-empty blob.
C5_BootstrapKeepsExistingFile ==
    [][/\ file # Absent => file' = file
       /\ file' # file => (pc = "init" /\ file = Absent /\ Truthy(blob')
                           /\ file' = blob')]_vars

C5_Witness ==
    /\ pc = "load" /\ Truthy(blob) /\ file # Absent /\ file # blob

\* C6: a failed token login without both credentials raises the
\* configuration error after exactly one login, on every guarded route,
\* while /health answers without any upstream call; with both credentials
\* the login is retried exactly once and a failed retry propagates.
C6_LoginFailure ==
    /\ (route = "health" /\ pc = "done") => (IsDict(resp) /\ calls = <<>>)
    /\ (logins # <<>> /\ IsExc(logins[1]))
        => IF Truthy(email) /\ Truthy(password)
           THEN /\ Len(logins) = 2
                /\ calls = <<"login", "login">> \/ Established
                /\ IsExc(logins[2]) => (pc = "done" /\ resp = logins[2])
           ELSE /\ Len(logins) = 1
                /\ calls = <<"login">>
                /\ pc = "done"
                /\ resp = ConfigError
                /\ route \in Guarded

C6_Witness ==
    /\ pc = "done" /\ route = "activities" /\ resp = ConfigError
    /\ Truthy(email) /\ ~Truthy(password) /\ Len(logins) = 1

DailyKeys ==
    {"sleep_score", "sleep_duration_min", "sleep_efficiency", "sleep_awake_min",
     "sleep_light_min", "sleep_deep_min", "sleep_rem_min",
     "hrv_avg_ms", "hrv_status", "hrv_baseline_7d_ms", "resting_hr_bpm",
     "body_battery_start", "body_battery_end", "stress_daily_avg",
     "training_status", "training_trend", "recovery_time_hours",
     "acute_load_value", "acute_load_opt_low", "acute_load_opt_high",
     "load_low_aerobic", "load_high_aerobic",
     "vo2max_value", "vo2max_fitness_age",
     "lthr_run_bpm", "lthr_cycle_bpm", "est_max_hr_bpm"}

\* C7: on an established session GET /daily answers, for every date and
\* whichever upstream queries raise, with a mapping holding every metric key.
C7_DailyAlwaysAnswers ==
    (pc = "done" /\ route = "daily" /\ Established /\ (IsExc(inp) \/ IsDict(inp)))
        => (IsDict(resp) /\ DailyKeys \subseteq DOMAIN resp.kv)

\* C8: when the upstream activity listing raises any error, GET /activities
\* on an established session still answers with a (possibly empty) sequence.
C8_ListingFailureRecovered ==
    (pc = "done" /\ route = "activities" /\ Established /\ IsExc(inp))
        => (IsDict(resp) /\ IsList(resp.kv.items))

\* the entries of activityDetailMetrics in an upstream detail document
Entries(details) ==
    LET m == GetD(details, "activityDetailMetrics", EmptyList)
    IN IF IsList(m) THEN m.seq ELSE <<>>

\* C9: when the activity-detail query raises or returns a non-mapping the
\* steps are an empty sequence; otherwise there is one record per upstream
\* metric entry, in upstream order, its index the entry's position.
C9_StepsFailureEmpty ==
    (pc = "done" /\ route = "steps" /\ Established)
        => /\ IsDict(resp)
           /\ IF IsExc(inp) \/ ~IsDict(inp)
              THEN resp.kv.steps = EmptyList
              ELSE /\ Len(resp.kv.steps.seq) = Len(Entries(inp))
                   /\ \A k \in 1..Len(Entries(inp)) :
                        /\ resp.kv.steps.seq[k].kv.index = PInt(k - 1)
                        /\ resp.kv.steps.seq[k] =
                             step_record(args.activity_id, k - 1, Entries(inp)[k])

\* the pace the documentation derives from an upstream activity document
DocumentedPace(a) ==
    LET speed == Get(a, "averageSpeed")
        mdur == Get(a, "movingDuration")
        dist == Get(a, "distance")
    IN IF IsNum(speed) /\ speed.n > 0 THEN Ratio(1000 * speed.d, speed.n)
       ELSE IF IsNum(mdur) /\ IsNum(dist) /\ dist.n # 0 THEN PerKm(mdur, dist)
       ELSE None

\* C10: every activity record of GET /activities carries as
\* avg_pace_s_per_km 1000 / averageSpeed when the speed is present and
\* positive, else movingDuration / (distance / 1000) when both are present
\* and the distance is nonzero, else nothing.
C10_PaceDerivation ==
    (pc = "done" /\ route = "activities" /\ IsList(inp) /\ IsDict(resp)
     /\ IsList(resp.kv.items))
        => \A i \in 1..Len(inp.seq) :
              IsDict(inp.seq[i]) =>
                 resp.kv.items.seq[i].kv.avg_pace_s_per_km = DocumentedPace(inp.seq[i])

====
